---- MODULE Spec2Model ----
(***************************************************************************)
(* Model of finance_track.database.DatabaseManager: the SQLite-backed      *)
(* expense ledger (tables categories and expenses), its write operations   *)
(* add_expense / update_expense / delete_expense, its read operations and  *)
(* the connection life cycle (__init__, close).                            *)
(*                                                                         *)
(* Text values that the code parses or orders (dates, category names) are  *)
(* spelled out by Chars as sequences of one-character strings, so that     *)
(* strptime and the string comparisons of Python and SQLite are computed   *)
(* character by character.                                                 *)
(* An optional argument (Python's None) is the empty tuple; a supplied     *)
(* value v is the one-element tuple <<v>>.                                 *)
(***************************************************************************)
EXTENDS Integers, Sequences, FiniteSets, TLC

VARIABLES
    disk,      \* the database file: what has been committed
    view,      \* what self.conn reads: disk plus the pending transaction
    is_open,   \* FALSE once close() has run on self.conn
    call,      \* the DatabaseManager call that has just returned, or Idle
    before     \* the value of view when that call was entered

vars == <<disk, view, is_open, call, before>>

----------------------------------------------------------------------------
(* Bounds of the model. *)

\* Cap on the AUTOINCREMENT counter of table expenses.
MaxExpenseId == 2

----------------------------------------------------------------------------
(* Optional values. *)

None == <<>>
Some(v) == <<v>>
Get(o) == o[1]

----------------------------------------------------------------------------
(* Characters and strings. *)

\* Unicode code points of the characters that occur in the model's strings.
Ord ==
    (" " :> 32) @@ ("-" :> 45) @@
    ("0" :> 48) @@ ("1" :> 49) @@ ("2" :> 50) @@ ("3" :> 51) @@ ("4" :> 52) @@
    ("5" :> 53) @@ ("6" :> 54) @@ ("7" :> 55) @@ ("8" :> 56) @@ ("9" :> 57) @@
    ("E" :> 69) @@ ("F" :> 70) @@ ("H" :> 72) @@ ("O" :> 79) @@ ("R" :> 82) @@
    ("T" :> 84) @@ ("U" :> 85) @@
    ("a" :> 97) @@ ("d" :> 100) @@ ("e" :> 101) @@ ("g" :> 103) @@
    ("h" :> 104) @@ ("i" :> 105) @@ ("l" :> 108) @@ ("m" :> 109) @@
    ("n" :> 110) @@ ("o" :> 111) @@ ("p" :> 112) @@ ("r" :> 114) @@
    ("s" :> 115) @@ ("t" :> 116) @@ ("u" :> 117)

\* Python's str < str and SQLite's BINARY collation: code point by code point,
\* a proper prefix sorting first.
RECURSIVE CharsLess(_, _)
CharsLess(a, b) ==
    IF b = <<>> THEN FALSE
    ELSE IF a = <<>> THEN TRUE
    ELSE IF Ord[Head(a)] < Ord[Head(b)] THEN TRUE
    ELSE IF Ord[Head(a)] > Ord[Head(b)] THEN FALSE
    ELSE CharsLess(Tail(a), Tail(b))

\* The characters of each string of the model.
Chars ==
    ("" :> <<>>) @@
    ("Food" :> <<"F","o","o","d">>) @@
    ("Transportation" :> <<"T","r","a","n","s","p","o","r","t","a","t","i","o","n">>) @@
    ("Housing" :> <<"H","o","u","s","i","n","g">>) @@
    ("Entertainment" :> <<"E","n","t","e","r","t","a","i","n","m","e","n","t">>) @@
    ("Utilities" :> <<"U","t","i","l","i","t","i","e","s">>) @@
    ("Other" :> <<"O","t","h","e","r">>) @@
    ("Rent" :> <<"R","e","n","t">>) @@
    ("1" :> <<"1">>) @@
    ("2" :> <<"2">>) @@
    ("25" :> <<"2","5">>) @@
    ("x" :> <<"x">>) @@
    ("2024-10-05" :> <<"2","0","2","4","-","1","0","-","0","5">>) @@
    ("2024-3-1" :> <<"2","0","2","4","-","3","-","1">>) @@
    ("2024-02-30" :> <<"2","0","2","4","-","0","2","-","3","0">>) @@
    ("2025-01-01" :> <<"2","0","2","5","-","0","1","-","0","1">>) @@
    ("not-a-date" :> <<"n","o","t","-","a","-","d","a","t","e">>)

StrLess(a, b) == CharsLess(Chars[a], Chars[b])

DEFAULT_CATEGORIES ==
    <<"Food", "Transportation", "Housing", "Entertainment", "Utilities", "Other">>

----------------------------------------------------------------------------
(* datetime.strptime(date, "%Y-%m-%d"), as add_expense calls it.  The format *)
(* compiles to the regular expression                                        *)
(*   (?P<Y>\d\d\d\d)-(?P<m>1[0-2]|0[1-9]|[1-9])-                             *)
(*   (?P<d>3[0-1]|[1-2]\d|0[1-9]|[1-9]| [1-9])                               *)
(* which must match a prefix of the string; unconverted data after the match *)
(* and a day that the month does not have are ValueErrors.                   *)

Digits == {"0", "1", "2", "3", "4", "5", "6", "7", "8", "9"}

At(s, i) == IF i >= 1 /\ i <= Len(s) THEN s[i] ELSE ""

\* The value of the decimal digits s[i .. i+n-1]; a leading blank counts as
\* nothing (int() strips it).
RECURSIVE Num(_, _, _)
Num(s, i, n) ==
    IF n = 0 THEN 0
    ELSE LET c == s[i + n - 1]
             v == IF c \in Digits THEN Ord[c] - 48 ELSE 0
         IN  v + 10 * Num(s, i, n - 1)

\* Each directive: the number of characters it matches at position i, 0 when
\* it does not match.  The alternatives are tried in the order of the regex.
match_Y(s, i) ==
    IF \A k \in i..(i + 3) : At(s, k) \in Digits THEN 4 ELSE 0

match_m(s, i) ==
    IF At(s, i) = "1" /\ At(s, i + 1) \in {"0", "1", "2"} THEN 2
    ELSE IF At(s, i) = "0" /\ At(s, i + 1) \in Digits \ {"0"} THEN 2
    ELSE IF At(s, i) \in Digits \ {"0"} THEN 1
    ELSE 0

match_d(s, i) ==
    IF At(s, i) = "3" /\ At(s, i + 1) \in {"0", "1"} THEN 2
    ELSE IF At(s, i) \in {"1", "2"} /\ At(s, i + 1) \in Digits THEN 2
    ELSE IF At(s, i) = "0" /\ At(s, i + 1) \in Digits \ {"0"} THEN 2
    ELSE IF At(s, i) \in Digits \ {"0"} THEN 1
    ELSE IF At(s, i) = " " /\ At(s, i + 1) \in Digits \ {"0"} THEN 2
    ELSE 0

is_leap(y) == y % 4 = 0 /\ (y % 100 # 0 \/ y % 400 = 0)

days_in_month(y, m) ==
    IF m = 2 THEN (IF is_leap(y) THEN 29 ELSE 28)
    ELSE IF m \in {4, 6, 9, 11} THEN 30
    ELSE 31

\* TRUE iff strptime returns, FALSE iff it raises ValueError.
strptime(date_string) ==
    LET s  == Chars[date_string]
        ny == match_Y(s, 1)
        im == ny + 2
        nm == match_m(s, im)
        id == im + nm + 1
        nd == match_d(s, id)
    IN  /\ ny > 0
        /\ At(s, ny + 1) = "-"
        /\ nm > 0
        /\ At(s, im + nm) = "-"
        /\ nd > 0
        /\ id + nd - 1 = Len(s)
        /\ LET y == Num(s, 1, ny)
               m == Num(s, im, nm)
               d == Num(s, id, nd)
           IN  y >= 1 /\ d >= 1 /\ d <= days_in_month(y, m)

\* The fixed-width form YYYY-MM-DD that datetime.now().strftime("%Y-%m-%d")
\* produces: ten characters, digits everywhere but the two dashes.
is_fixed_width(date_string) ==
    LET s == Chars[date_string]
    IN  /\ Len(s) = 10
        /\ \A k \in {1, 2, 3, 4, 6, 7, 9, 10} : s[k] \in Digits
        /\ s[5] = "-" /\ s[8] = "-"

----------------------------------------------------------------------------
(* The argument values the calls are drawn from. *)

d_2024_10_05 == "2024-10-05"
d_2024_3_1   == "2024-3-1"
d_2024_02_30 == "2024-02-30"
d_2025_01_01 == "2025-01-01"
d_not_a_date == "not-a-date"

Food == DEFAULT_CATEGORIES[1]
Rent == "Rent"

Amounts      == {10, 25}
Descriptions == {"", "lunch"}
\* Category names given to add_expense: a default one and an unseen one.
AddNames     == {Food, Rent}
AddDates     == {None, Some(d_2024_10_05), Some(d_2024_3_1), Some(d_not_a_date),
                 Some(d_2024_02_30)}
\* What datetime.now().strftime("%Y-%m-%d") may return.
Clock        == {d_2024_10_05}

UpdateAmounts      == {None, Some(25)}
UpdateDescriptions == {None, Some("lunch")}
UpdateNames        == {None, Some(Rent)}
UpdateDates        == {None, Some(d_2024_10_05)}

\* Lines typed at the prompts of the command-line update.  At the date prompt
\* the lines are typed one after the other until one is taken.
IdLines          == {"1", "2", "x"}
AmountLines      == {"", "25"}
DescriptionLines == {"", "lunch"}
CategoryLines    == {"", Rent}
DateLines        == {<<"">>, <<d_2024_3_1>>, <<d_not_a_date, "">>}

\* Bounds given to get_expenses_by_date_range.
RangeBounds == {d_2024_10_05, d_2025_01_01, d_not_a_date}

----------------------------------------------------------------------------
(* The database: the two tables and the sqlite_sequence counters that      *)
(* AUTOINCREMENT keeps for them.                                           *)

EmptyDb == [categories |-> {}, expenses |-> {}, cat_seq |-> 0, exp_seq |-> 0]

\* As categories_unique_ok, the column declared without UNIQUE.
categories_without_unique(db, name) == TRUE

\* name TEXT UNIQUE NOT NULL: may a row with this name be inserted?
categories_unique_ok(db, name) == ~ \E c \in db.categories : c.name = name

\* INSERT INTO categories (name) VALUES (?), the constraint already checked.
insert_category(db, name) ==
    [db EXCEPT !.categories = @ \cup {[id |-> db.cat_seq + 1, name |-> name]},
               !.cat_seq = @ + 1]

\* As insert_or_ignore_category, with INSERT OR REPLACE: the row that holds
\* the name is deleted and a new row is inserted.
insert_or_replace_category(db, name) ==
    insert_category([db EXCEPT !.categories = {c \in @ : c.name # name}], name)

\* INSERT OR IGNORE INTO categories (name) VALUES (?).  (SQLite burns a rowid
\* for an ignored insert as well; category ids mean nothing beyond identity,
\* and the model lets the counter stand.)
insert_or_ignore_category(db, name) ==
    IF categories_unique_ok(db, name) THEN insert_category(db, name)
    ELSE db

RECURSIVE insert_defaults(_, _)
insert_defaults(db, i) ==
    IF i > Len(DEFAULT_CATEGORIES) THEN db
    ELSE insert_defaults(insert_or_ignore_category(db, DEFAULT_CATEGORIES[i]), i + 1)

\* SELECT id FROM categories WHERE name = ? ; fetchone()
select_category(db, name) == {c \in db.categories : c.name = name}

\* As resolve_or_create, the INSERT of the unseen name left out: the id that
\* the row would have got is handed on.
resolve_without_create(db, name) ==
    LET result == select_category(db, name)
    IN  IF result # {}
        THEN [db |-> db, category_id |-> (CHOOSE c \in result : TRUE).id,
              error |-> FALSE]
        ELSE [db |-> db, category_id |-> db.cat_seq + 1, error |-> FALSE]

\* The lookup-then-insert of add_expense and update_expense:
\* [db, category_id, error], error being sqlite3.IntegrityError.
resolve_or_create(db, name) ==
    LET result == select_category(db, name)
    IN  IF result # {}
        THEN [db |-> db, category_id |-> (CHOOSE c \in result : TRUE).id,
              error |-> FALSE]
        ELSE IF categories_unique_ok(db, name)
        THEN [db |-> insert_category(db, name), category_id |-> db.cat_seq + 1,
              error |-> FALSE]
        ELSE [db |-> db, category_id |-> 0, error |-> TRUE]

\* As insert_expense, the description not bound: the column keeps "".
insert_expense_without_description(db, amount, description, date, category_id) ==
    [db EXCEPT !.expenses = @ \cup {[id |-> db.exp_seq + 1, amount |-> amount,
                                     description |-> "", date |-> date,
                                     category_id |-> category_id]},
               !.exp_seq = @ + 1]

\* INSERT INTO expenses (amount, description, date, category_id) VALUES (...)
insert_expense(db, amount, description, date, category_id) ==
    [db EXCEPT !.expenses = @ \cup {[id |-> db.exp_seq + 1, amount |-> amount,
                                     description |-> description, date |-> date,
                                     category_id |-> category_id]},
               !.exp_seq = @ + 1]

----------------------------------------------------------------------------
(* The operations.  Each yields [view, commit, result]: the connection's   *)
(* view when the call returns, whether self.conn.commit() ran, and the     *)
(* return value.                                                           *)

Outcome(db, commit, result) == [view |-> db, commit |-> commit, result |-> result]

\* As add_date_ok, checking the length of the string only.
add_date_ok_by_length(date) == Len(Chars[date]) = 10

\* The date check at the head of add_expense.
add_date_ok(date) == strptime(date)

add_expense(db, open, amount, category_name, date_arg, description, today) ==
    LET date == IF date_arg = None THEN today ELSE Get(date_arg)
    IN  IF ~ add_date_ok(date) THEN Outcome(db, FALSE, None)
        ELSE IF ~ open THEN Outcome(db, FALSE, None)
        ELSE LET cat == resolve_or_create(db, category_name)
             IN  IF cat.error THEN Outcome(db, FALSE, None)
                 ELSE LET db2 == insert_expense(cat.db, amount, description, date,
                                                cat.category_id)
                      IN  Outcome(db2, TRUE, Some(db2.exp_seq))

\* " ".join(conditions), as a token sequence: the items with the separator
\* between each two.
update_separator == " "

join(sep, items) ==
    [k \in 1..(IF items = <<>> THEN 0 ELSE 2 * Len(items) - 1) |->
        IF k % 2 = 1 THEN items[(k + 1) \div 2] ELSE sep]

\* SQLite's grammar of UPDATE ... SET: one or more assignments, a comma
\* between each two.
set_clause_parses(tokens) ==
    /\ Len(tokens) >= 1
    /\ \A k \in 1..Len(tokens) : k % 2 = 0 => tokens[k] = ","

\* The early return of update_expense: "No information was provided".
nothing_to_update(amount, description, category_name, date) ==
    amount = None /\ description = None /\ category_name = None

update_conditions(amount, description, category_name, date) ==
    (IF amount # None THEN <<"amount">> ELSE <<>>) \o
    (IF description # None THEN <<"description">> ELSE <<>>) \o
    (IF category_name # None THEN <<"category_id">> ELSE <<>>) \o
    (IF date # None THEN <<"date">> ELSE <<>>)

\* As expense_exists, the lookup of the row left out.
expense_exists_unchecked(db, expense_id) == TRUE

\* SELECT * FROM expenses WHERE id = ? ; fetchone()
expense_exists(db, expense_id) == \E e \in db.expenses : e.id = expense_id

\* As apply_update, a description that was not supplied written as "".
apply_update_resetting(db, expense_id, amount, description, category_id, date) ==
    [db EXCEPT !.expenses =
        {IF e.id # expense_id THEN e
         ELSE [id |-> e.id,
               amount |-> IF amount # None THEN Get(amount) ELSE e.amount,
               description |-> IF description # None THEN Get(description)
                               ELSE "",
               date |-> IF date # None THEN Get(date) ELSE e.date,
               category_id |-> IF category_id # None THEN Get(category_id)
                               ELSE e.category_id] : e \in @}]

\* UPDATE expenses SET <conditions> WHERE id = ?
apply_update(db, expense_id, amount, description, category_id, date) ==
    [db EXCEPT !.expenses =
        {IF e.id # expense_id THEN e
         ELSE [id |-> e.id,
               amount |-> IF amount # None THEN Get(amount) ELSE e.amount,
               description |-> IF description # None THEN Get(description)
                               ELSE e.description,
               date |-> IF date # None THEN Get(date) ELSE e.date,
               category_id |-> IF category_id # None THEN Get(category_id)
                               ELSE e.category_id] : e \in @}]

update_expense(db, open, expense_id, amount, description, category_name, date) ==
    IF nothing_to_update(amount, description, category_name, date)
    THEN Outcome(db, FALSE, Some(FALSE))
    ELSE IF ~ open THEN Outcome(db, FALSE, Some(FALSE))
    ELSE IF ~ expense_exists(db, expense_id)
    THEN Outcome(db, FALSE, Some(FALSE))
    ELSE LET cat == IF category_name # None
                    THEN resolve_or_create(db, Get(category_name))
                    ELSE [db |-> db, category_id |-> 0, error |-> FALSE]
             category_id == IF category_name # None THEN Some(cat.category_id)
                            ELSE None
             query == join(update_separator,
                           update_conditions(amount, description, category_name, date))
         IN  IF cat.error THEN Outcome(db, FALSE, Some(FALSE))
             ELSE IF ~ set_clause_parses(query)
             THEN Outcome(cat.db, FALSE, Some(FALSE))
             ELSE Outcome(apply_update(cat.db, expense_id, amount, description,
                                       category_id, date),
                          TRUE, Some(TRUE))

\* As delete_expense, the DELETE without its WHERE clause: every row goes.
delete_expense_without_where(db, open, expense_id) ==
    IF ~ open THEN Outcome(db, FALSE, Some(FALSE))
    ELSE Outcome([db EXCEPT !.expenses = {}], TRUE, Some(db.expenses # {}))

delete_expense(db, open, expense_id) ==
    IF ~ open THEN Outcome(db, FALSE, Some(FALSE))
    ELSE Outcome([db EXCEPT !.expenses = {e \in @ : e.id # expense_id}],
                 TRUE,
                 Some(\E e \in db.expenses : e.id = expense_id))

\* cursor.fetchall() of a SELECT without ORDER BY: the rows in rowid order.
RECURSIVE fetchall(_)
fetchall(rows) ==
    IF rows = {} THEN <<>>
    ELSE LET m == CHOOSE x \in rows : \A y \in rows : x.id <= y.id
         IN  <<m>> \o fetchall(rows \ {m})

\* sorted(r["name"] for r in "SELECT name FROM categories"): one entry per row.
extract_existing_category_names(db) ==
    LET rows == fetchall(db.categories)
    IN  SortSeq([k \in 1..Len(rows) |-> rows[k].name], StrLess)

\* FROM expenses e JOIN categories c ON e.category_id = c.id
joined(db) ==
    {[id |-> p[1].id, amount |-> p[1].amount, description |-> p[1].description,
      date |-> p[1].date, category |-> p[2].name] :
        p \in {q \in db.expenses \X db.categories : q[1].category_id = q[2].id}}

\* ORDER BY e.date DESC; rows of equal date in rowid order.
date_desc(x, y) == StrLess(y.date, x.date) \/ (x.date = y.date /\ x.id < y.id)

\* sqlite3.ProgrammingError on a closed connection is caught: the empty list.
get_all_expenses(db, open) ==
    IF ~ open THEN <<>> ELSE SortSeq(fetchall(joined(db)), date_desc)

\* MIN(date) and MAX(date) over the expenses: NULL (None) over no rows, else
\* the least and the greatest of the TEXT values.
min_date(db) ==
    IF db.expenses = {} THEN None
    ELSE Some(CHOOSE d \in {e.date : e \in db.expenses} :
                 \A e \in db.expenses : ~ StrLess(e.date, d))

max_date(db) ==
    IF db.expenses = {} THEN None
    ELSE Some(CHOOSE d \in {e.date : e \in db.expenses} :
                 \A e \in db.expenses : ~ StrLess(d, e.date))

\* fetchone() of the aggregate SELECT: it has one row whatever the table
\* holds.  `if result:` is the truth value of that row, which is its having
\* columns.  The value returned is None, or Some of the pair.
extract_total_date_range(db) ==
    LET result == <<min_date(db), max_date(db)>>
    IN  IF Len(result) > 0 THEN Some(<<result[1], result[2]>>) ELSE None

\* As between, both bounds excluded.
between_exclusive(rows, start_date, end_date) ==
    {r \in rows : StrLess(start_date, r.date) /\ StrLess(r.date, end_date)}

\* WHERE e.date BETWEEN ? AND ? : date >= start AND date <= end, on TEXT
\* values, which SQLite compares byte by byte.
between(rows, start_date, end_date) ==
    {r \in rows : ~ StrLess(r.date, start_date) /\ ~ StrLess(end_date, r.date)}

\* ORDER BY e.date; rows of equal date in rowid order.
date_asc(x, y) == StrLess(x.date, y.date) \/ (x.date = y.date /\ x.id < y.id)

\* A bound that strptime refuses: the empty list, no query.  A closed
\* connection: sqlite3.ProgrammingError is caught, the empty list.
get_expenses_by_date_range(db, open, start_date, end_date) ==
    IF ~ strptime(start_date) \/ ~ strptime(end_date) THEN <<>>
    ELSE IF ~ open THEN <<>>
    ELSE SortSeq(fetchall(between(joined(db), start_date, end_date)), date_asc)

\* SUM(e.amount) over the rows of one group.
RECURSIVE sum_amounts(_)
sum_amounts(rows) ==
    IF rows = {} THEN 0
    ELSE LET r == CHOOSE x \in rows : TRUE
         IN  r.amount + sum_amounts(rows \ {r})

\* GROUP BY c.name over the join: one row (name, total) for each name that
\* occurs in it.
group_by_name(rows) ==
    {[name |-> n, total |-> sum_amounts({r \in rows : r.category = n})] :
        n \in {r.category : r \in rows}}

\* As group_by_name, over categories LEFT JOIN expenses: a category without
\* expenses is a group too.
group_by_name_left_join(db) ==
    {[name |-> c.name,
      total |-> sum_amounts({r \in joined(db) : r.category = c.name})] :
        c \in db.categories}

\* ORDER BY total DESC.  SQL leaves the order of equal totals open; SQLite
\* delivers them in descending order of the group key.
total_desc(x, y) ==
    x.total > y.total \/ (x.total = y.total /\ StrLess(y.name, x.name))

RECURSIVE to_seq(_)
to_seq(rows) ==
    IF rows = {} THEN <<>>
    ELSE LET r == CHOOSE x \in rows : TRUE
         IN  <<r>> \o to_seq(rows \ {r})

\* As get_expenses_by_category, grouping over the LEFT JOIN.
get_expenses_by_category_left_join(db, open) ==
    IF ~ open THEN <<>>
    ELSE SortSeq(to_seq(group_by_name_left_join(db)), total_desc)

\* sqlite3.ProgrammingError on a closed connection is caught: the empty list.
get_expenses_by_category(db, open) ==
    IF ~ open THEN <<>>
    ELSE SortSeq(to_seq(group_by_name(joined(db))), total_desc)

----------------------------------------------------------------------------
(* The state machine: one DatabaseManager on one database file, driven by  *)
(* one caller.  A call runs to completion in one step and leaves its       *)
(* arguments and return value in `call`; Return is the caller taking the   *)
(* result, after which the next call may be made.  The caller keeps to the *)
(* contract of close(): it makes no call on a closed manager, it only      *)
(* constructs a new one on the file.                                       *)

Call(op, expense_id, amount, description, category_name, date, result) ==
    [op |-> op, expense_id |-> expense_id, amount |-> amount,
     description |-> description, category_name |-> category_name,
     date |-> date, result |-> result, raised |-> FALSE,
     rows |-> <<>>, totals |-> <<>>, names |-> <<>>, span |-> None,
     typed |-> None, printed |-> None]

\* A call of a method that reads: what it returns is held by the field for
\* values of its kind (rows of expenses, rows of totals, names, the span of
\* the dates).
Query(op, field, value) ==
    [Call(op, 0, None, None, None, None, None) EXCEPT ![field] = value]

\* The call ended in an exception that the method does not catch.
Raised(op) ==
    [Call(op, 0, None, None, None, None, None) EXCEPT !.raised = TRUE]

Idle == Call("idle", 0, None, None, None, None, None)

\* The counter of expense ids stays within the model's bound.
Fits(db) == db.exp_seq <= MaxExpenseId

\* The state a call leaves: the view, and the file if it committed.
Finish(out, c) ==
    /\ Fits(out.view)
    /\ view' = out.view
    /\ disk' = IF out.commit THEN out.view ELSE disk
    /\ call' = c
    /\ before' = view
    /\ UNCHANGED is_open

\* Ids given to update_expense and delete_expense: an id is unknown while it has
\* not been issued yet and after its row has been deleted.
ExpenseIds == 1..MaxExpenseId

Init ==
    /\ disk = insert_defaults(EmptyDb, 1)
    /\ view = disk
    /\ is_open = TRUE
    /\ call = Idle
    /\ before = view

AddExpenseCall ==
    \E amount \in Amounts, category_name \in AddNames, date \in AddDates,
       description \in Descriptions, today \in Clock :
       LET out == add_expense(view, is_open, amount, category_name, date,
                              description, today)
       IN  Finish(out, Call("add_expense", 0, Some(amount), Some(description),
                            Some(category_name), date, out.result))

AddExpense == call = Idle /\ is_open /\ AddExpenseCall

UpdateExpenseCall ==
    \E expense_id \in ExpenseIds, amount \in UpdateAmounts,
       description \in UpdateDescriptions, category_name \in UpdateNames,
       date \in UpdateDates :
       LET out == update_expense(view, is_open, expense_id, amount, description,
                                 category_name, date)
       IN  Finish(out, Call("update_expense", expense_id, amount, description,
                            category_name, date, out.result))

UpdateExpense == call = Idle /\ is_open /\ UpdateExpenseCall

DeleteExpenseCall ==
    \E expense_id \in ExpenseIds :
       LET out == delete_expense(view, is_open, expense_id)
       IN  Finish(out, Call("delete_expense", expense_id, None, None, None,
                            None, out.result))

DeleteExpense == call = Idle /\ is_open /\ DeleteExpenseCall

\* A call that only reads leaves the store as it is.
Read(c) == Finish(Outcome(view, FALSE, None), c)

GetAllExpensesCall ==
    Read(Query("get_all_expenses", "rows", get_all_expenses(view, is_open)))

GetAllExpenses == call = Idle /\ is_open /\ GetAllExpensesCall

GetExpensesByCategoryCall ==
    Read(Query("get_expenses_by_category", "totals",
               get_expenses_by_category(view, is_open)))

GetExpensesByCategory == call = Idle /\ is_open /\ GetExpensesByCategoryCall

\* The bounds are recorded as the call's date (start) and description (end).
GetExpensesByDateRangeCall ==
    \E start_date \in RangeBounds, end_date \in RangeBounds :
       Read([Query("get_expenses_by_date_range", "rows",
                   get_expenses_by_date_range(view, is_open, start_date,
                                              end_date))
                EXCEPT !.date = Some(start_date), !.description = Some(end_date)])

GetExpensesByDateRange == call = Idle /\ is_open /\ GetExpensesByDateRangeCall

\* No try/except in the method: on a closed connection conn.cursor() raises
\* sqlite3.ProgrammingError to the caller.
ExtractTotalDateRangeCall ==
    IF is_open
    THEN Read(Query("extract_total_date_range", "span",
                    extract_total_date_range(view)))
    ELSE Read(Raised("extract_total_date_range"))

ExtractTotalDateRange == call = Idle /\ is_open /\ ExtractTotalDateRangeCall

\* No try/except in this method either.
ExtractExistingCategoryNamesCall ==
    IF is_open
    THEN Read(Query("extract_existing_category_names", "names",
                    extract_existing_category_names(view)))
    ELSE Read(Raised("extract_existing_category_names"))

ExtractExistingCategoryNames ==
    call = Idle /\ is_open /\ ExtractExistingCategoryNamesCall

\* close(): self.conn.close() discards the pending transaction.
Close ==
    /\ call = Idle
    /\ is_open
    /\ is_open' = FALSE
    /\ view' = disk
    /\ call' = Call("close", 0, None, None, None, None, None)
    /\ before' = view
    /\ UNCHANGED disk

\* DatabaseManager(db_file) on the file a closed manager has left.
Reopen ==
    /\ call = Idle
    /\ ~ is_open
    /\ disk' = insert_defaults(disk, 1)
    /\ view' = disk'
    /\ is_open' = TRUE
    /\ call' = Call("__init__", 0, None, None, None, None, None)
    /\ before' = view

Return ==
    /\ call # Idle
    /\ call' = Idle
    /\ before' = view
    /\ UNCHANGED <<disk, view, is_open>>

Next ==
    \/ AddExpense
    \/ UpdateExpense
    \/ DeleteExpense
    \/ GetAllExpenses
    \/ GetExpensesByCategory
    \/ GetExpensesByDateRange
    \/ ExtractTotalDateRange
    \/ ExtractExistingCategoryNames
    \/ Close
    \/ Reopen
    \/ Return

Spec == Init /\ [][Next]_vars

----------------------------------------------------------------------------
(* The same machine with a caller that goes on using a manager after its   *)
(* close(): every method may be called on the closed connection.           *)

AddExpenseAfterClose == call = Idle /\ ~ is_open /\ AddExpenseCall
UpdateExpenseAfterClose == call = Idle /\ ~ is_open /\ UpdateExpenseCall
DeleteExpenseAfterClose == call = Idle /\ ~ is_open /\ DeleteExpenseCall
GetAllExpensesAfterClose == call = Idle /\ ~ is_open /\ GetAllExpensesCall
GetExpensesByCategoryAfterClose ==
    call = Idle /\ ~ is_open /\ GetExpensesByCategoryCall
GetExpensesByDateRangeAfterClose ==
    call = Idle /\ ~ is_open /\ GetExpensesByDateRangeCall
ExtractTotalDateRangeAfterClose ==
    call = Idle /\ ~ is_open /\ ExtractTotalDateRangeCall
ExtractExistingCategoryNamesAfterClose ==
    call = Idle /\ ~ is_open /\ ExtractExistingCategoryNamesCall

NextAfterClose ==
    \/ Next
    \/ AddExpenseAfterClose
    \/ UpdateExpenseAfterClose
    \/ DeleteExpenseAfterClose
    \/ GetAllExpensesAfterClose
    \/ GetExpensesByCategoryAfterClose
    \/ GetExpensesByDateRangeAfterClose
    \/ ExtractTotalDateRangeAfterClose
    \/ ExtractExistingCategoryNamesAfterClose

SpecAfterClose == Init /\ [][NextAfterClose]_vars

----------------------------------------------------------------------------
(* The same machine with a caller that also gives the empty string as a    *)
(* category name.                                                           *)

AddExpenseEmptyName ==
    /\ call = Idle
    /\ is_open
    /\ \E amount \in Amounts, date \in AddDates, description \in Descriptions,
          today \in Clock :
          LET out == add_expense(view, is_open, amount, "", date, description,
                                 today)
          IN  Finish(out, Call("add_expense", 0, Some(amount), Some(description),
                               Some(""), date, out.result))

UpdateExpenseEmptyName ==
    /\ call = Idle
    /\ is_open
    /\ \E expense_id \in ExpenseIds, amount \in UpdateAmounts,
          description \in UpdateDescriptions, date \in UpdateDates :
          LET out == update_expense(view, is_open, expense_id, amount, description,
                                    Some(""), date)
          IN  Finish(out, Call("update_expense", expense_id, amount, description,
                               Some(""), date, out.result))

NextEmptyName ==
    \/ Next
    \/ AddExpenseEmptyName
    \/ UpdateExpenseEmptyName

SpecEmptyName == Init /\ [][NextEmptyName]_vars

----------------------------------------------------------------------------
(* The command-line interface: option 4, "Update single expense".          *)

\* int(line) and float(line) of a line of decimal digits; any other line of
\* the model is a ValueError.
is_number(line) ==
    Chars[line] # <<>> /\ \A k \in 1..Len(Chars[line]) : Chars[line][k] \in Digits

number(line) == Num(Chars[line], 1, Len(Chars[line]))

\* _get_date_input: a blank line becomes today's date, a line that strptime
\* accepts is returned, any other line is asked for again.  None while no
\* line has been taken.
RECURSIVE _get_date_input(_, _)
_get_date_input(lines, today) ==
    IF lines = <<>> THEN None
    ELSE IF Head(lines) = "" THEN Some(today)
    ELSE IF strptime(Head(lines)) THEN Some(Head(lines))
    ELSE _get_date_input(Tail(lines), today)

updated_message == "Expense updated successfully."
failed_message  == "Failed to update expense."
invalid_message == "Invalid expense ID."

\* `value if value else None`
blank_is_none(value) == IF value # "" THEN Some(value) ELSE None

\* CliFinanceTrack._update_expense; the result is the line it prints.
_update_expense(db, open, id_line, amount_line, description, category, date_lines, today) ==
    IF ~ is_number(id_line) THEN Outcome(db, FALSE, Some(invalid_message))
    ELSE IF amount_line # "" /\ ~ is_number(amount_line)
    THEN Outcome(db, FALSE, Some(invalid_message))
    ELSE LET amount == IF amount_line # "" THEN Some(number(amount_line))
                       ELSE None
             date == Get(_get_date_input(date_lines, today))
             out == update_expense(db, open, number(id_line), amount,
                                   blank_is_none(description),
                                   blank_is_none(category), blank_is_none(date))
         IN  Outcome(out.view, out.commit,
                     Some(IF out.result = Some(TRUE) THEN updated_message
                          ELSE failed_message))

\* A call of a method of the command-line interface: the lines typed at its
\* prompts and the line it prints.
CliCall(op, typed, printed) ==
    [Call(op, 0, None, None, None, None, None) EXCEPT !.typed = Some(typed),
                                                      !.printed = printed]

\* The lines typed are recorded in the order of the prompts; of the date
\* lines the first.
CliUpdateExpense ==
    /\ call = Idle
    /\ is_open
    /\ \E id_line \in IdLines, amount_line \in AmountLines,
          description \in DescriptionLines, category \in CategoryLines,
          date_lines \in DateLines, today \in Clock :
          /\ _get_date_input(date_lines, today) # None
          /\ LET out == _update_expense(view, is_open, id_line, amount_line,
                                        description, category, date_lines, today)
             IN  Finish(out, CliCall("_update_expense",
                                     <<id_line, amount_line, description,
                                       category, Head(date_lines)>>,
                                     out.result))

NextCli ==
    \/ Next
    \/ CliUpdateExpense

SpecCli == Init /\ [][NextCli]_vars

----------------------------------------------------------------------------
(* Vocabulary of the properties. *)

Names(db) == {c.name : c \in db.categories}
Ids(db) == {e.id : e \in db.expenses}
Row(db, expense_id) == CHOOSE e \in db.expenses : e.id = expense_id
CategoryName(db, category_id) ==
    (CHOOSE c \in db.categories : c.id = category_id).name

\* The optional fields a call of update_expense supplied.
Supplied(c) ==
    {f \in {"amount", "description", "category_name", "date"} : c[f] # None}

Returned(op) == call.op = op

\* A calendar date written year-month-day: three runs of digits with a dash
\* between them, a four-digit year, and a day that the month has.
Fields(date_string) ==
    LET s == Chars[date_string]
        dashes == {k \in 1..Len(s) : s[k] = "-"}
    IN  IF Cardinality(dashes) # 2 THEN <<>>
        ELSE LET a == CHOOSE k \in dashes : \A j \in dashes : k <= j
                 b == CHOOSE k \in dashes : \A j \in dashes : k >= j
             IN  <<SubSeq(s, 1, a - 1), SubSeq(s, a + 1, b - 1),
                   SubSeq(s, b + 1, Len(s))>>

AllDigits(s) == s # <<>> /\ \A k \in 1..Len(s) : s[k] \in Digits

names_a_date(s) ==
    LET f == Fields(s)
    IN  /\ f # <<>>
        /\ \A k \in 1..3 : AllDigits(f[k])
        /\ Len(f[1]) = 4 /\ Len(f[2]) <= 2 /\ Len(f[3]) <= 2
        /\ LET y == Num(f[1], 1, 4)
               m == Num(f[2], 1, Len(f[2]))
               d == Num(f[3], 1, Len(f[3]))
           IN  y >= 1 /\ m \in 1..12 /\ d >= 1 /\ d <= days_in_month(y, m)

\* The same day in the fixed-width form: the chronological order of two
\* dates (year, then month, then day).
Chrono(s) ==
    LET f == Fields(s)
    IN  <<Num(f[1], 1, 4), Num(f[2], 1, Len(f[2])), Num(f[3], 1, Len(f[3]))>>

Earlier(s, t) ==
    LET a == Chrono(s)
        b == Chrono(t)
    IN  \/ a[1] < b[1]
        \/ a[1] = b[1] /\ a[2] < b[2]
        \/ a[1] = b[1] /\ a[2] = b[2] /\ a[3] < b[3]

----------------------------------------------------------------------------
(* C1.  In every state that add_expense, update_expense and delete_expense  *)
(* reach on an open store, every expense row has a category_id that is the  *)
(* id of exactly one existing category row, in what the connection reads    *)
(* and in what is committed.                                                *)
C1_ReferentialIntegrity ==
    \A db \in {view, disk} : \A e \in db.expenses :
        /\ e.category_id >= 1
        /\ \E c \in db.categories :
              /\ c.id = e.category_id
              /\ \A c2 \in db.categories : c2.id = c.id => c2 = c

\* An update has just linked an expense to a category that the update created.
C1_Witness ==
    /\ Returned("update_expense")
    /\ call.result = Some(TRUE)
    /\ call.category_name = Some(Rent)
    /\ Rent \notin Names(before)
    /\ CategoryName(view, Row(view, call.expense_id).category_id) = Rent

(* C2.  A successful add_expense returns an id no expense had before, and   *)
(* get_all_expenses then holds a record with that id whose amount,          *)
(* description, date and category name are the supplied ones (the date of   *)
(* the clock when none was supplied).                                       *)
C2_AddThenGetAll ==
    (Returned("add_expense") /\ call.result # None) =>
        LET id == Get(call.result)
            all == get_all_expenses(view, is_open)
        IN  /\ id \notin Ids(before)
            /\ id > before.exp_seq
            /\ \E k \in 1..Len(all) :
                  /\ all[k].id = id
                  /\ all[k].amount = Get(call.amount)
                  /\ all[k].description = Get(call.description)
                  /\ all[k].category = Get(call.category_name)
                  /\ IF call.date = None THEN all[k].date \in Clock
                     ELSE all[k].date = Get(call.date)

\* An add that created its category, with a description, next to older rows.
C2_Witness ==
    /\ Returned("add_expense")
    /\ call.result # None
    /\ call.category_name = Some(Rent)
    /\ Rent \notin Names(before)
    /\ call.description = Some("lunch")
    /\ before.expenses # {}

(* C3.  add_expense and update_expense are atomic with respect to category  *)
(* creation: a call that returns its failure value leaves the categories    *)
(* that the store reads back (extract_existing_category_names) as they      *)
(* were.                                                                    *)
C3_AtomicCategoryCreation ==
    (\/ Returned("add_expense") /\ call.result = None
     \/ Returned("update_expense") /\ call.result = Some(FALSE)) =>
        extract_existing_category_names(view) =
            extract_existing_category_names(before)

(* C4.  update_expense on an existing id with two or more optional fields   *)
(* supplied sets each supplied field, leaves the others, and returns true.  *)
C4_MultiFieldUpdate ==
    (/\ Returned("update_expense")
     /\ Cardinality(Supplied(call)) >= 2
     /\ call.expense_id \in Ids(before)) =>
        /\ call.result = Some(TRUE)
        /\ call.expense_id \in Ids(view)
        /\ LET old == Row(before, call.expense_id)
               new == Row(view, call.expense_id)
           IN  /\ new.amount = IF call.amount # None THEN Get(call.amount)
                               ELSE old.amount
               /\ new.description = IF call.description # None
                                    THEN Get(call.description)
                                    ELSE old.description
               /\ new.date = IF call.date # None THEN Get(call.date)
                             ELSE old.date
               /\ IF call.category_name # None
                  THEN CategoryName(view, new.category_id) = Get(call.category_name)
                  ELSE new.category_id = old.category_id

(* C5.  update_expense on an existing id that supplies the date alone       *)
(* updates the date and returns true: it does not report "nothing to        *)
(* update".                                                                 *)
C5_DateAloneUpdates ==
    (/\ Returned("update_expense")
     /\ Supplied(call) = {"date"}
     /\ call.expense_id \in Ids(before)) =>
        /\ call.result = Some(TRUE)
        /\ Row(view, call.expense_id).date = Get(call.date)

(* C6.  update_expense on an existing id with the amount alone supplied     *)
(* returns true and changes that expense's amount and nothing else: its     *)
(* other fields, the other rows and the categories stay as they were.       *)
C6_AmountOnlyFrame ==
    (/\ Returned("update_expense")
     /\ Supplied(call) = {"amount"}
     /\ call.expense_id \in Ids(before)) =>
        /\ call.result = Some(TRUE)
        /\ view.expenses =
              {IF e.id = call.expense_id
               THEN [e EXCEPT !.amount = Get(call.amount)] ELSE e :
                  e \in before.expenses}
        /\ view.categories = before.categories

\* An amount-only update that changed the amount of a row with a description,
\* another row being there.
C6_Witness ==
    /\ Returned("update_expense")
    /\ Supplied(call) = {"amount"}
    /\ call.expense_id \in Ids(before)
    /\ Row(before, call.expense_id).amount # Get(call.amount)
    /\ Row(before, call.expense_id).description = "lunch"
    /\ Cardinality(before.expenses) >= 2

(* C7.  Every stored expense date is a valid date in the fixed-width form   *)
(* YYYY-MM-DD, so that the order of the stored strings is the chronological *)
(* order of the days.                                                       *)
C7_StoredDatesFixedWidth ==
    /\ \A e \in view.expenses : is_fixed_width(e.date) /\ names_a_date(e.date)
    /\ \A e1, e2 \in view.expenses :
          StrLess(e1.date, e2.date) <=> Earlier(e1.date, e2.date)

(* C8.  add_expense given a string that is no date returns None and leaves  *)
(* the ledger as it was: no expense row, no category, also when the         *)
(* category name was unseen; the tables read as they did before, so         *)
(* get_all_expenses and extract_existing_category_names return what they    *)
(* returned before.                                                         *)
C8_MalformedDateNoWrite ==
    (/\ Returned("add_expense")
     /\ call.date # None
     /\ ~ names_a_date(Get(call.date))) =>
        /\ call.result = None
        /\ view = before

\* The rejected call named an unseen category, on a ledger that has expenses.
C8_Witness ==
    /\ Returned("add_expense")
    /\ call.date = Some(d_not_a_date)
    /\ call.category_name = Some(Rent)
    /\ Rent \notin Names(before)
    /\ before.expenses # {}

(* C9.  Category names are unique in every reachable state, across writes   *)
(* and re-initializations; a write that names an existing category adds no  *)
(* category row; extract_existing_category_names is sorted and has no       *)
(* duplicate.                                                               *)
C9_UniqueCategoryNames ==
    /\ \A db \in {view, disk} :
          Cardinality(Names(db)) = Cardinality(db.categories)
    /\ LET names == extract_existing_category_names(view)
       IN  \A k \in 1..(Len(names) - 1) : StrLess(names[k], names[k + 1])
    /\ (/\ call.op \in {"add_expense", "update_expense"}
        /\ call.category_name # None
        /\ Get(call.category_name) \in Names(before)) =>
            view.categories = before.categories

\* The store has been re-initialized on a file in which two expenses share a
\* category that an add_expense created.
C9_Witness ==
    /\ Returned("__init__")
    /\ \E e1, e2 \in view.expenses :
          /\ e1.id # e2.id
          /\ e1.category_id = e2.category_id
          /\ CategoryName(view, e1.category_id) = Rent

(* C10.  update_expense with an id that no expense has returns false and    *)
(* leaves the ledger as it was, whatever fields are supplied: no row is     *)
(* changed and no category is created.                                      *)
C10_UnknownIdNoWrite ==
    (Returned("update_expense") /\ call.expense_id \notin Ids(before)) =>
        /\ call.result = Some(FALSE)
        /\ view = before

\* The unknown id came with an amount and an unseen category name.
C10_Witness ==
    /\ Returned("update_expense")
    /\ call.expense_id \notin Ids(before)
    /\ call.amount # None
    /\ call.category_name = Some(Rent)
    /\ Rent \notin Names(before)
    /\ before.expenses # {}

(* C11.  delete_expense with the id of an existing expense returns true and  *)
(* removes that row and no other: every other expense and every category   *)
(* reads as before.  With an id that no expense has (one deleted earlier,  *)
(* or one never issued) it returns false and the ledger reads as before.   *)
C11_DeleteExactlyThatRow ==
    Returned("delete_expense") =>
        IF call.expense_id \in Ids(before)
        THEN /\ call.result = Some(TRUE)
             /\ view.expenses = before.expenses \ {Row(before, call.expense_id)}
             /\ view.categories = before.categories
             /\ \A k \in 1..Len(get_all_expenses(view, is_open)) :
                    get_all_expenses(view, is_open)[k].id # call.expense_id
        ELSE /\ call.result = Some(FALSE)
             /\ view = before

\* A second delete of an id whose row an earlier delete removed, with another
\* expense still in the ledger.
C11_Witness ==
    /\ Returned("delete_expense")
    /\ call.result = Some(FALSE)
    /\ call.expense_id <= before.exp_seq
    /\ call.expense_id \notin Ids(before)
    /\ before.expenses # {}

(* C12.  On an open store get_expenses_by_category returns one row for each *)
(* category name that at least one expense has, with the sum of the        *)
(* amounts of the expenses of that category as its total; a category       *)
(* without expenses has no row; the rows come in descending order of       *)
(* total.                                                                   *)
C12_TotalsByCategory ==
    Returned("get_expenses_by_category") =>
        LET rows == call.totals
            used == {CategoryName(view, e.category_id) : e \in view.expenses}
        IN  /\ {rows[k].name : k \in 1..Len(rows)} = used
            /\ Len(rows) = Cardinality(used)
            /\ \A k \in 1..Len(rows) :
                   rows[k].total =
                       sum_amounts({e \in view.expenses :
                           CategoryName(view, e.category_id) = rows[k].name})
            /\ \A j, k \in 1..Len(rows) :
                   j < k => rows[j].total >= rows[k].total

\* Two categories with different totals, the larger one of the category whose
\* expense was added last, and categories without any expense.
C12_Witness ==
    /\ Returned("get_expenses_by_category")
    /\ Len(call.totals) = 2
    /\ call.totals[1].total > call.totals[2].total
    /\ \E e \in view.expenses :
          e.id = 2 /\ CategoryName(view, e.category_id) = call.totals[1].name
    /\ Cardinality(view.categories) > 2

C14_TotalDateRange ==
    Returned("extract_total_date_range") =>
        IF view.expenses = {} THEN call.span = None
        ELSE \E lo, hi \in {e.date : e \in view.expenses} :
                /\ \A e \in view.expenses :
                       ~ StrLess(e.date, lo) /\ ~ StrLess(hi, e.date)
                /\ call.span = Some(<<Some(lo), Some(hi)>>)

\* The operations of the store that a caller may invoke.
Operations ==
    {"add_expense", "update_expense", "delete_expense", "get_all_expenses",
     "get_expenses_by_category", "get_expenses_by_date_range",
     "extract_total_date_range", "extract_existing_category_names"}

(* C15.  After close() every further call of an operation of the store      *)
(* (add_expense, update_expense, delete_expense, get_all_expenses,         *)
(* get_expenses_by_category, get_expenses_by_date_range,                   *)
(* extract_total_date_range, extract_existing_category_names) ends in an   *)
(* error raised to the caller, not in a returned value.                     *)
C15_ClosedFailsFast ==
    (~ is_open /\ call.op \in Operations) => call.raised

C17_NonEmptyNames ==
    \A db \in {view, disk} : \A c \in db.categories : c.name # ""

\* The line typed at the k-th prompt of a command-line call.
Typed(k) == Get(call.typed)[k]

(* C18.  In the command-line update, a field left blank is not changed.    *)
(* For the id of an existing expense, a new amount typed and description,  *)
(* category and date left blank: the expense has the new amount, its       *)
(* description, category and date are as before, every other row is as     *)
(* before, and the line printed is "Expense updated successfully."         *)
C18_CliBlankKeepsField ==
    (/\ Returned("_update_expense")
     /\ is_number(Typed(1))
     /\ number(Typed(1)) \in Ids(before)) =>
        LET old == Row(before, number(Typed(1)))
            new == Row(view, number(Typed(1)))
        IN  /\ number(Typed(1)) \in Ids(view)
            /\ Typed(2) = "" => new.amount = old.amount
            /\ Typed(3) = "" => new.description = old.description
            /\ Typed(4) = "" => new.category_id = old.category_id
            /\ Typed(5) = "" => new.date = old.date
            /\ (Typed(2) # "" /\ Typed(3) = "" /\ Typed(4) = "" /\ Typed(5) = "") =>
                   /\ call.printed = Some(updated_message)
                   /\ new.amount = number(Typed(2))
                   /\ view.expenses \ {new} = before.expenses \ {old}
                   /\ view.categories = before.categories

====
